---- MODULE Spec2Model ----
(***************************************************************************)
(* Model of the base-table component (src/src/table/base-table/index.tsx): *)
(* pagination reconciliation, row slicing, layout mode, footer, and        *)
(* (further down) the scroll and lifecycle handlers.                       *)
(*                                                                         *)
(* JavaScript values: an optional number is the empty sequence << >> when  *)
(* it is undefined (or NaN after arithmetic) and <<n>> when it is the      *)
(* number n. A string is <<"string", chars>> with chars the sequence of    *)
(* its characters.                                                         *)
(***************************************************************************)
EXTENDS Integers, Sequences, FiniteSets, TLC

\* ------------------------------------------------------------------ bounds
MaxPage == 3        \* largest page number / page size a caller or the widget supplies
MaxDefault == 1     \* largest caller-supplied uncontrolled default
MaxRows == 3        \* largest dataset
ScrollWidth == 3    \* content width of the scroll container, in units of its narrowest client width
MaxOrphans == 1     \* throttled handlers of earlier renders that still hold a pending call
MaxStrLen == 3      \* longest height string
MaxColumns == 2     \* most top-level columns
MaxChildren == 2    \* most children of a column group
MaxScrollTop == 1   \* lowest vertical scroll position
MaxScrollbar == 1   \* thickest platform scrollbar, in pixels

\* ------------------------------------------------------- program constants
MirrorWait == 10    \* throttle(..., 10) of the split-mode body scroll handler
ScrollWait == 100   \* throttle(this.handleScroll, 100) of render()

\* ------------------------------------------------------------- JS helpers
Undefined == << >>
Num(n) == <<n>>
IsNum(v) == v /= Undefined
\* JavaScript truthiness of an optional number: undefined, NaN and 0 are falsy.
Truthy(v) == IsNum(v) /\ v[1] /= 0
\* a || b
Or(a, b) == IF Truthy(a) THEN a ELSE b
Min(a, b) == IF a < b THEN a ELSE b
Abs(n) == IF n < 0 THEN 0 - n ELSE n
Max(a, b) == IF a > b THEN a ELSE b
\* numeric operators; an undefined operand gives NaN (not a number)
JsSub(a, b) == IF IsNum(a) /\ IsNum(b) THEN Num(a[1] - b[1]) ELSE Undefined
JsMul(a, b) == IF IsNum(a) /\ IsNum(b) THEN Num(a[1] * b[1]) ELSE Undefined
\* n > v: a comparison with undefined/NaN is false
JsGt(n, v) == IsNum(v) /\ n > v[1]
\* Array.prototype.slice's index normalisation: NaN is 0, a negative index
\* counts from the end, everything is clamped to [0, len].
RelIndex(k, len) ==
  IF ~IsNum(k) THEN 0
  ELSE IF k[1] < 0 THEN Max(len + k[1], 0)
  ELSE Min(k[1], len)
\* arr.slice(start, end): a fresh array holding arr[start .. end-1]
JsSlice(arr, start, end) ==
  LET from == RelIndex(start, Len(arr))
      to   == RelIndex(end, Len(arr))
  IN  SubSeq(arr, from + 1, to)

\* strings, and parseInt(s, 10): leading white space is skipped, a sign is
\* read, then the longest run of decimal digits; what follows is ignored,
\* and without a digit the result is NaN
Str(s) == <<"string", s>>
IsString(v) == Len(v) = 2
WhiteSpace == {" "}
DigitChars == <<"0", "1", "2", "3", "4", "5", "6", "7", "8", "9">>
IsDigit(c) == \E d \in DOMAIN DigitChars : DigitChars[d] = c
DigitValue(c) == (CHOOSE d \in DOMAIN DigitChars : DigitChars[d] = c) - 1
RECURSIVE TrimStart(_)
TrimStart(s) ==
  IF s /= << >> /\ Head(s) \in WhiteSpace THEN TrimStart(Tail(s)) ELSE s
RECURSIVE DigitPrefix(_)
DigitPrefix(s) ==
  IF s /= << >> /\ IsDigit(Head(s))
    THEN <<Head(s)>> \o DigitPrefix(Tail(s))
    ELSE << >>
RECURSIVE DecimalValue(_, _)
DecimalValue(s, acc) ==
  IF s = << >> THEN acc
  ELSE DecimalValue(Tail(s), 10 * acc + DigitValue(Head(s)))
parseInt(s) ==
  LET t == TrimStart(s)
      signed == t /= << >> /\ Head(t) \in {"-", "+"}
      digits == DigitPrefix(IF signed THEN Tail(t) ELSE t)
  IN  IF digits = << >> THEN Undefined
      ELSE IF signed /\ Head(t) = "-" THEN Num(0 - DecimalValue(digits, 0))
      ELSE Num(DecimalValue(digits, 0))

\* ------------------------------------------------------------------- state
PageValues == {Undefined} \cup {Num(n) : n \in 0..MaxPage}
DefaultValues == {Undefined} \cup {Num(n) : n \in 0..MaxDefault}
\* the pagination prop: NoPagination when the caller supplies none
NoPagination == [absent |-> TRUE]
PaginationConfigs ==
  [current : PageValues, pageSize : PageValues,
   defaultCurrent : DefaultValues, defaultPageSize : DefaultValues]
\* configurations that give no uncontrolled defaults
ControlledConfigs ==
  [current : PageValues, pageSize : PageValues,
   defaultCurrent : {Undefined}, defaultPageSize : {Undefined}]
ControlledFields == {"current", "pageSize"}
DefaultFields == {"defaultCurrent", "defaultPageSize"}
FieldValues(f) == IF f \in ControlledFields THEN PageValues ELSE DefaultValues
\* the data prop: rows are identified by their position at creation
RECURSIVE Rows(_)
Rows(n) == IF n = 0 THEN << >> ELSE Append(Rows(n - 1), n)

\* sequences over S of lo to hi elements
SeqsOf(S, lo, hi) == UNION {[1..k -> S] : k \in lo..hi}
\* the height prop: a number of pixels, a string, or absent
HeightChars == {"0", "1", "2", "p", "-", " "}
Heights ==
  {Undefined, Num(0), Num(120), Num(-120)}
    \cup {Str(s) : s \in SeqsOf(HeightChars, 0, MaxStrLen)}
\* the columns prop: a column is fixed "left" or "right" or not at all
\* ("none"), and a column group has children
FixedValues == {"none", "left", "right"}
Leaf(f) == [fixed |-> f, children |-> << >>]
ColumnSets ==
  { <<Leaf("none")>>,
    <<Leaf("left"), Leaf("none")>> }
Leaves == {Leaf(f) : f \in FixedValues}
Groups == [fixed : FixedValues, children : SeqsOf(Leaves, 1, MaxChildren)]
ColumnTrees == SeqsOf(Leaves \cup Groups, 1, MaxColumns)
\* the callbacks a parent may supply: a page-change listener and the
\* pagination prop's onChange / onCurrentChange / onPageSizeChange
AllHooks == {"page-change", "onChange", "onCurrentChange", "onPageSizeChange"}

VARIABLES
  pagination,        \* props.pagination
  data,              \* props.data, the caller's array
  defaultCurrent,    \* data().defaultCurrent
  defaultPageSize,   \* data().defaultPageSize
  produced,          \* the array last handed out by the dataSource computed:
                     \* alias = it is the caller's array itself,
                     \* rows = its contents when it was produced,
                     \* paged = hasPagination at that time
  loading,           \* props.loading
  footerSlot,        \* a footer prop or slot is supplied
  hooks,             \* the callbacks the parent supplies (see AllHooks)
  footer,            \* what the last render put in the footer: "empty" |
                     \* "footer" | "none"
  log,               \* what the parent's callbacks received during the last
                     \* step, in order
  height,            \* props.height
  columns,           \* props.columns
  scrollbarThickness,\* the platform's scrollbar thickness
  scrollBarWidth,    \* data().scrollBarWidth
  rendered,          \* the layout the last render built, and the
                     \* padding-right of its header element
  lifecycle,         \* "created" | "mounted" | "unmounted"
  scrollableToLeft,  \* data().scrollableToLeft
  scrollableToRight, \* data().scrollableToRight
  scrollLeft,        \* scrollLeft of the scroll container of the layout mode
  scrollTop,         \* its scrollTop
  clientWidth,       \* its clientWidth
  headerScrollLeft,  \* scrollLeft of the split-mode header element
  handler,           \* the throttled scroll handler built by the last render
  orphans,           \* remaining times of the trailing timers of throttled
                     \* handlers of earlier renders that hold a pending call
  preScroll,         \* the previous reading kept by getScrollDirection
  notify,            \* the run of this.handleScroll in the last step: ran,
                     \* its direction and the notifications it emitted
  sinceHandle,       \* time since this.handleScroll last ran, counted up to
                     \* ScrollWait; Undefined when nobody keeps the time
  deferred,          \* mounted()'s setTimeout(..., 0) is pending
  listeners,         \* the window's resize listeners (wrapper ids)
  nextWrapper,       \* id of the next wrapper debounce() returns
  debouncing,        \* wrappers whose debounce timer is pending
  outcome            \* what the last step ran: "none" | "checked" |
                     \* "checkThrew" | "mirrorThrew"

parentVars == <<loading, footerSlot, hooks>>
pageVars ==
  <<pagination, data, defaultCurrent, defaultPageSize, produced, parentVars,
    footer>>
propVars == <<height, columns, scrollbarThickness>>
measureVars == <<scrollBarWidth, rendered>>
domVars == <<scrollLeft, scrollTop, clientWidth, headerScrollLeft>>
flagVars == <<scrollableToLeft, scrollableToRight>>
throttleVars == <<handler, orphans>>
emitVars == <<preScroll, notify, sinceHandle>>
resizeVars == <<listeners, nextWrapper, debouncing>>
scrollVars ==
  <<propVars, measureVars, lifecycle, flagVars, domVars, throttleVars,
    emitVars, deferred, resizeVars, outcome>>
vars == <<pageVars, log, scrollVars>>

\* ---------------------------------------------------------------- computed
hasPagination == pagination /= NoPagination
\* this.pagination?.x
PaginationField(f) == IF hasPagination THEN pagination[f] ELSE Undefined

\* Mutation of current: the internally tracked default is consulted first.
current_InternalFirst ==
  Or(Or(Num(defaultCurrent), PaginationField("current")),
     PaginationField("defaultCurrent"))

current ==
  Or(Or(PaginationField("current"), Num(defaultCurrent)),
     PaginationField("defaultCurrent"))

pageSize ==
  Or(Or(PaginationField("pageSize"), Num(defaultPageSize)),
     PaginationField("defaultPageSize"))

\* Mutation of dataSource: the window starts at current * pageSize.
dataSource_StartOffByOne ==
  IF ~hasPagination
    THEN [alias |-> FALSE, rows |-> JsSlice(data, Num(0), Num(Len(data)))]
  ELSE IF JsGt(Len(data), pageSize)
    THEN [alias |-> FALSE,
          rows |-> JsSlice(data, JsMul(current, pageSize),
                                 JsMul(current, pageSize))]
  ELSE [alias |-> TRUE, rows |-> data]

\* Mutation of dataSource: a dataset of exactly pageSize rows is sliced too.
dataSource_SliceWhenEqual ==
  IF ~hasPagination
    THEN [alias |-> FALSE, rows |-> JsSlice(data, Num(0), Num(Len(data)))]
  ELSE IF JsGt(Len(data) + 1, pageSize)
    THEN [alias |-> FALSE,
          rows |-> JsSlice(data, JsMul(JsSub(current, Num(1)), pageSize),
                                 JsMul(current, pageSize))]
  ELSE [alias |-> TRUE, rows |-> data]

\* Mutation of dataSource: without pagination the caller's array is returned.
dataSource_NoCopy ==
  IF ~hasPagination
    THEN [alias |-> TRUE, rows |-> data]
  ELSE IF JsGt(Len(data), pageSize)
    THEN [alias |-> FALSE,
          rows |-> JsSlice(data, JsMul(JsSub(current, Num(1)), pageSize),
                                 JsMul(current, pageSize))]
  ELSE [alias |-> TRUE, rows |-> data]

\* the array the computed returns, with its identity
dataSource ==
  IF ~hasPagination
    THEN [alias |-> FALSE, rows |-> JsSlice(data, Num(0), Num(Len(data)))]
  ELSE IF JsGt(Len(data), pageSize)
    THEN [alias |-> FALSE,
          rows |-> JsSlice(data, JsMul(JsSub(current, Num(1)), pageSize),
                                 JsMul(current, pageSize))]
  ELSE [alias |-> TRUE, rows |-> data]

\* flatColumns(columns): the leaves of the column tree, in order
RECURSIVE flatColumns(_)
flatColumns(cols) ==
  IF cols = << >> THEN << >>
  ELSE LET c == Head(cols)
       IN  (IF c.children = << >> THEN <<c>> ELSE flatColumns(c.children))
             \o flatColumns(Tail(cols))
flattedColumns == flatColumns(columns)

hasFixedColumns ==
  \E i \in DOMAIN columns : columns[i].fixed \in {"right", "left"}

\* Mutation of tableHeight: a string that is not all digits counts as 0.
tableHeight_DigitsOnly ==
  IF IsString(height)
    THEN IF DigitPrefix(height[2]) = height[2]
           THEN parseInt(height[2])
           ELSE Num(0)
    ELSE Or(height, Num(0))

\* parseInt(height, 10) for a string, else height || 0; NaN is Undefined
tableHeight ==
  IF IsString(height) THEN parseInt(height[2]) ELSE Or(height, Num(0))
\* this.tableHeight > 0; a comparison with NaN is false
fixedHeader == IsNum(tableHeight) /\ tableHeight[1] > 0

\* Mutation of isEmpty: loading is not consulted.
isEmpty_IgnoreLoading == dataSource.rows = << >>

\* (!this.dataSource || this.dataSource.length === 0) && !this.loading
isEmpty == dataSource.rows = << >> /\ ~loading

\* the footer content of renderFooter(); without content there is no tfoot
renderFooter ==
  IF isEmpty THEN "empty"
  ELSE IF footerSlot THEN "footer"
  ELSE "none"

\* Mutation of renderLayout: the header is padded only with fixed columns.
renderLayout_PadOnlyWhenFixed ==
  [layout |-> IF fixedHeader THEN "FIXED_HEADER_SPLIT" ELSE "SINGLE_BLOCK",
   paddingRight |-> IF fixedHeader
                      THEN IF hasFixedColumns THEN Num(scrollBarWidth)
                           ELSE Num(0)
                      ELSE Undefined]

\* render(): renderTableWithFixedHeader() when fixedHeader, whose header
\* element carries paddingRight = scrollBarWidth px; else one table and no
\* header element
renderLayout ==
  [layout |-> IF fixedHeader THEN "FIXED_HEADER_SPLIT" ELSE "SINGLE_BLOCK",
   paddingRight |-> IF fixedHeader THEN Num(scrollBarWidth) ELSE Undefined]

\* what renderBody hands to the body: this.dataSource
Produce ==
  LET ds == dataSource
  IN  [alias |-> ds.alias, rows |-> ds.rows, paged |-> hasPagination]
\* the contents of an array handed out earlier, as read now
Contents(p) == IF p.alias THEN data ELSE p.rows

\* ----------------------------------------------------------- notifications
\* emitEvent(this, name, ...args): one notification of that name
emitEvent(name, args) == <<[name |-> name, args |-> args]>>
\* a call of a callback of the pagination prop
CallHook(name, args) == <<[name |-> name, args |-> args]>>
\* of the notifications and calls made, those the parent has a callback for
Deliver(entries) == SelectSeq(entries, LAMBDA e : e.name \in hooks)
\* the arguments a page-change listener or a pagination callback receives:
\* the changed field of pageInfo, the rows passed along, and the internal
\* defaults as they stand at the time of the call
PageArgs(field, value, rows, dc, dps) ==
  [field |-> field, value |-> value, rows |-> rows,
   defaultCurrent |-> dc, defaultPageSize |-> dps]

\* ---------------------------------------------------------------- throttle
\* lodash throttle(func, wait) = debounce(func, wait, {leading, trailing,
\* maxWait: wait}). An instance keeps: timer (remaining time of timerId, or
\* Undefined), hasArgs (lastArgs is set), sinceCall / sinceInvoke (time since
\* lastCallTime / lastInvokeTime, counted up to the wait; a handler never
\* called counts as called long ago).
Wait == IF fixedHeader THEN MirrorWait ELSE ScrollWait
FreshThrottle(w) ==
  [timer |-> Undefined, hasArgs |-> FALSE, sinceCall |-> w, sinceInvoke |-> w]
shouldInvoke(th, w) == th.sinceCall >= w \/ th.sinceInvoke >= w
\* debounced(...args): the instance after the call, and whether func ran
ThrottleCall(th, w) ==
  IF shouldInvoke(th, w)
    THEN [th |-> [timer |-> Num(w), hasArgs |-> FALSE,
                  sinceCall |-> 0, sinceInvoke |-> 0],
          invoked |-> TRUE]
    ELSE [th |-> [th EXCEPT !.hasArgs = TRUE, !.sinceCall = 0,
                            !.timer = IF IsNum(th.timer) THEN th.timer
                                      ELSE Num(w)],
          invoked |-> FALSE]
\* Mutation of ThrottleExpire: the trailing edge drops the pending call.
ThrottleExpire_NoTrailing(th, w) ==
  [th |-> [th EXCEPT !.timer = Undefined, !.hasArgs = FALSE],
   invoked |-> FALSE]

\* timerExpired(): trailingEdge when shouldInvoke, else the timer restarts
ThrottleExpire(th, w) ==
  IF shouldInvoke(th, w)
    THEN [th |-> [th EXCEPT !.timer = Undefined, !.hasArgs = FALSE,
                            !.sinceInvoke = IF th.hasArgs THEN 0 ELSE @],
          invoked |-> th.hasArgs]
    ELSE [th |-> [th EXCEPT !.timer =
                     Num(Min(w - th.sinceCall, w - th.sinceInvoke))],
          invoked |-> FALSE]
\* the passing of d time units
ThrottleAge(th, w, d) ==
  [th EXCEPT !.timer = IF IsNum(@) THEN Num(@[1] - d) ELSE @,
             !.sinceCall = Min(@ + d, w),
             !.sinceInvoke = Min(@ + d, w)]

\* ------------------------------------------------------------ scroll logic
\* the refs exist between mount and unmount
refsPresent == lifecycle = "mounted"

\* Mutation of checkScrollableToLeftOrRight: the right edge still counts
\* as scrollable.
checkScrollableToLeftOrRight_Inclusive(sl, cw) ==
  [left |-> sl > 0, right |-> sl + cw <= ScrollWidth]

\* the two assignments of checkScrollableToLeftOrRight
checkScrollableToLeftOrRight(sl, cw) ==
  [left |-> sl > 0, right |-> sl + cw < ScrollWidth]

\* a render builds a new throttled handler; the one it replaces lives on
\* only through its pending trailing call
OrphansAfterRender(th, orph) ==
  IF IsNum(th.timer) /\ th.hasArgs THEN orph \cup {th.timer[1]} ELSE orph

RenderHandlers(th, orph) ==
  /\ Cardinality(OrphansAfterRender(th, orph)) <= MaxOrphans
  /\ handler' = FreshThrottle(Wait)
  /\ orphans' = OrphansAfterRender(th, orph)

\* this.checkScrollableToLeftOrRight(), then the render its flag changes
\* schedule; th / orph are the throttled handlers as the caller leaves them
RunCheck(th, orph, sl, cw) ==
  IF refsPresent
    THEN LET f == checkScrollableToLeftOrRight(sl, cw) IN
         /\ scrollableToLeft' = f.left
         /\ scrollableToRight' = f.right
         /\ outcome' = "checked"
         /\ IF f.left /= scrollableToLeft \/ f.right /= scrollableToRight
              THEN RenderHandlers(th, orph)
              ELSE handler' = th /\ orphans' = orph
    ELSE \* destructuring an absent ref throws before any assignment
         /\ UNCHANGED flagVars
         /\ outcome' = "checkThrew"
         /\ handler' = th /\ orphans' = orph

\* getScrollDirection(scrollLeft, scrollTop): the change of each offset
\* since the previous reading is compared; the larger change names the
\* direction, and equal changes (none at all included) leave it unknown
SCROLL_DIRECTION == [X |-> "x", Y |-> "y", UNKNOWN |-> "unknown"]
getScrollDirection(sl, st) ==
  LET dx == Abs(sl - preScroll.left)
      dy == Abs(st - preScroll.top)
  IN  IF dx > dy THEN SCROLL_DIRECTION.X
      ELSE IF dy > dx THEN SCROLL_DIRECTION.Y
      ELSE SCROLL_DIRECTION.UNKNOWN

\* Mutation of scrollNotifications: an unknown direction is reported as a
\* vertical scroll.
scrollNotifications_Always(direction) ==
  emitEvent(IF direction = SCROLL_DIRECTION.X THEN "scroll-x" ELSE "scroll-y",
            "e")

\* the notifications handleScroll emits for a direction
scrollNotifications(direction) ==
  IF direction /= SCROLL_DIRECTION.UNKNOWN
    THEN emitEvent(IF direction = SCROLL_DIRECTION.X THEN "scroll-x"
                   ELSE "scroll-y", "e")
    ELSE << >>

\* no run of this.handleScroll in this step
NotRun ==
  [ran |-> FALSE, direction |-> SCROLL_DIRECTION.UNKNOWN, events |-> << >>]
Quiet ==
  /\ notify' = NotRun
  /\ UNCHANGED <<preScroll, sinceHandle>>

\* this.handleScroll(e): the check, then the direction and its notification;
\* a check that throws ends the handler
handleScroll(th, orph, sl, st, cw) ==
  /\ RunCheck(th, orph, sl, cw)
  /\ IF refsPresent
       THEN LET direction == getScrollDirection(sl, st) IN
            /\ preScroll' = [left |-> sl, top |-> st]
            /\ notify' = [ran |-> TRUE, direction |-> direction,
                          events |-> scrollNotifications(direction)]
            /\ sinceHandle' = IF IsNum(sinceHandle) THEN Num(0)
                              ELSE sinceHandle
       ELSE Quiet

\* Mutation of RunScrollHandler: the header receives the position of the
\* previous reading.
RunScrollHandler_StaleMirror(th, orph, sl, st, cw) ==
  IF fixedHeader
    THEN IF refsPresent
           THEN /\ headerScrollLeft' = preScroll.left
                /\ handleScroll(th, orph, sl, st, cw)
           ELSE /\ UNCHANGED <<headerScrollLeft, flagVars>>
                /\ outcome' = "mirrorThrew"
                /\ handler' = th /\ orphans' = orph
                /\ Quiet
    ELSE /\ UNCHANGED headerScrollLeft
         /\ handleScroll(th, orph, sl, st, cw)

\* the function the throttle wraps: in split mode the header mirror followed
\* by this.handleScroll(e), in single-block mode this.handleScroll(e)
RunScrollHandler(th, orph, sl, st, cw) ==
  IF fixedHeader
    THEN IF refsPresent
           THEN /\ headerScrollLeft' = sl
                /\ handleScroll(th, orph, sl, st, cw)
           ELSE \* this.$refs.scrollHeader is absent: the assignment throws
                /\ UNCHANGED <<headerScrollLeft, flagVars>>
                /\ outcome' = "mirrorThrew"
                /\ handler' = th /\ orphans' = orph
                /\ Quiet
    ELSE /\ UNCHANGED headerScrollLeft
         /\ handleScroll(th, orph, sl, st, cw)

\* ------------------------------------------------------------------ actions
PageIdle ==
  /\ defaultCurrent = 0
  /\ defaultPageSize = 0
  /\ produced = Produce
  /\ footer = renderFooter
  /\ log = << >>

\* a parent that supplies neither loading state, footer nor callbacks
PlainParent ==
  /\ loading = FALSE
  /\ footerSlot = FALSE
  /\ hooks = {}

ScrollIdle ==
  /\ lifecycle = "created"
  /\ scrollBarWidth = 0
  /\ rendered = renderLayout
  /\ scrollableToLeft = FALSE
  /\ scrollableToRight = FALSE
  /\ scrollLeft = 0
  /\ scrollTop = 0
  /\ clientWidth = 1
  /\ headerScrollLeft = 0
  /\ handler = FreshThrottle(Wait)
  /\ orphans = {}
  /\ preScroll = [left |-> 0, top |-> 0]
  /\ notify = NotRun
  /\ deferred = FALSE
  /\ listeners = {}
  /\ nextWrapper = 1
  /\ debouncing = {}
  /\ outcome = "none"

\* Mutation of OnCurrentChange: the other internal default is reset.
OnCurrentChange_ResetsSize(c) ==
  /\ hasPagination
  /\ log' = Deliver(
       emitEvent("page-change",
                 PageArgs("current", c, dataSource.rows,
                          defaultCurrent, defaultPageSize))
       \o CallHook("onCurrentChange",
                   PageArgs("current", c, << >>, c, 0)))
  /\ defaultCurrent' = c
  /\ defaultPageSize' = 0
  /\ UNCHANGED <<pagination, data, parentVars>>
  /\ produced' = Produce'
  /\ footer' = renderFooter'
  /\ UNCHANGED scrollVars

\* Mutation of OnCurrentChange: the internal default is updated before the
\* notification is emitted.
OnCurrentChange_UpdateFirst(c) ==
  /\ hasPagination
  /\ defaultCurrent' = c
  /\ UNCHANGED <<pagination, data, defaultPageSize, parentVars>>
  /\ produced' = Produce'
  /\ footer' = renderFooter'
  /\ log' = Deliver(
       emitEvent("page-change",
                 PageArgs("current", c, dataSource'.rows,
                          c, defaultPageSize))
       \o CallHook("onCurrentChange",
                   PageArgs("current", c, << >>, c, defaultPageSize)))
  /\ UNCHANGED scrollVars

\* Pagination's onCurrentChange(current, pageInfo); the widget exists only
\* while a pagination prop is supplied. The notification carries
\* this.dataSource as it stands, then the internal default is assigned, then
\* the caller's callback runs. The state change re-renders.
OnCurrentChange(c) ==
  /\ hasPagination
  /\ log' = Deliver(
       emitEvent("page-change",
                 PageArgs("current", c, dataSource.rows,
                          defaultCurrent, defaultPageSize))
       \o CallHook("onCurrentChange",
                   PageArgs("current", c, << >>, c, defaultPageSize)))
  /\ defaultCurrent' = c
  /\ UNCHANGED <<pagination, data, defaultPageSize, parentVars>>
  /\ produced' = Produce'
  /\ footer' = renderFooter'
  /\ UNCHANGED scrollVars

\* Pagination's onPageSizeChange(pageSize, pageInfo)
OnPageSizeChange(s) ==
  /\ hasPagination
  /\ log' = Deliver(
       emitEvent("page-change",
                 PageArgs("pageSize", s, dataSource.rows,
                          defaultCurrent, defaultPageSize))
       \o CallHook("onPageSizeChange",
                   PageArgs("pageSize", s, << >>, defaultCurrent, s)))
  /\ defaultPageSize' = s
  /\ UNCHANGED <<pagination, data, defaultCurrent, parentVars>>
  /\ produced' = Produce'
  /\ footer' = renderFooter'
  /\ UNCHANGED scrollVars

\* Pagination's onChange(pageInfo): forwarded to the caller's callback
OnChange ==
  /\ hasPagination
  /\ log' = Deliver(
       CallHook("onChange",
                PageArgs("pageInfo", 0, << >>,
                         defaultCurrent, defaultPageSize)))
  /\ UNCHANGED pageVars
  /\ UNCHANGED scrollVars

\* the parent changes one field of the pagination prop
SetPaginationField(f, v) ==
  /\ hasPagination
  /\ pagination[f] /= v
  /\ pagination' = [pagination EXCEPT ![f] = v]
  /\ UNCHANGED <<data, defaultCurrent, defaultPageSize, parentVars>>
  /\ produced' = Produce'
  /\ footer' = renderFooter'
  /\ log' = << >>
  /\ UNCHANGED scrollVars

\* the parent starts supplying a pagination prop
SupplyPagination(configs) ==
  /\ ~hasPagination
  /\ pagination' \in configs
  /\ UNCHANGED <<data, defaultCurrent, defaultPageSize, parentVars>>
  /\ produced' = Produce'
  /\ footer' = renderFooter'
  /\ log' = << >>
  /\ UNCHANGED scrollVars

\* the parent withdraws the pagination prop
WithdrawPagination ==
  /\ hasPagination
  /\ pagination' = NoPagination
  /\ UNCHANGED <<data, defaultCurrent, defaultPageSize, parentVars>>
  /\ produced' = Produce'
  /\ footer' = renderFooter'
  /\ log' = << >>
  /\ UNCHANGED scrollVars

\* the parent passes a new array of n rows
SetData(n) ==
  /\ data /= Rows(n)
  /\ data' = Rows(n)
  /\ UNCHANGED <<pagination, defaultCurrent, defaultPageSize, parentVars>>
  /\ produced' = Produce'
  /\ footer' = renderFooter'
  /\ log' = << >>
  /\ UNCHANGED scrollVars

\* the parent changes the loading prop
SetLoading(b) ==
  /\ loading /= b
  /\ loading' = b
  /\ UNCHANGED <<pagination, data, defaultCurrent, defaultPageSize,
                 footerSlot, hooks>>
  /\ produced' = Produce'
  /\ footer' = renderFooter'
  /\ log' = << >>
  /\ UNCHANGED scrollVars

\* the caller mutates its own array in place (push / pop); nothing of the
\* component runs
MutateData ==
  /\ \/ /\ Len(data) < MaxRows
        /\ data' = Append(data, Len(data) + 1)
     \/ /\ Len(data) > 0
        /\ data' = SubSeq(data, 1, Len(data) - 1)
  /\ UNCHANGED <<pagination, defaultCurrent, defaultPageSize, produced,
                 parentVars, footer>>
  /\ log' = << >>
  /\ UNCHANGED scrollVars

\* a render pass reads this.dataSource again
Render ==
  /\ produced' = Produce
  /\ footer' = renderFooter
  /\ UNCHANGED <<pagination, data, defaultCurrent, defaultPageSize,
                 parentVars>>
  /\ log' = << >>
  /\ UNCHANGED scrollVars

\* ---------------------------------------------------- lifecycle and scroll
\* debounce(fn): every call returns a wrapper of its own, here its id
debounce == nextWrapper

\* window.addEventListener('resize', debounce(this.checkScrollableToLeftOrRight))
addWindowResizeEventListener ==
  /\ listeners' = listeners \cup {debounce}
  /\ nextWrapper' = nextWrapper + 1

\* window.removeEventListener('resize', debounce(this.checkScrollableToLeftOrRight))
removeWindowResizeEventListener ==
  /\ listeners' = listeners \ {debounce}
  /\ nextWrapper' = nextWrapper + 1

\* a step of the scroll and lifecycle handlers leaves the pagination state
\* alone and calls none of the parent's pagination callbacks
PageUntouched ==
  /\ UNCHANGED pageVars
  /\ log' = << >>

\* mounted(): the layout gives the scroll container its client width; the
\* scrollbar probe measures offsetWidth - clientWidth whatever the columns,
\* and the new scrollBarWidth re-renders
Mount ==
  /\ lifecycle = "created"
  /\ lifecycle' = "mounted"
  /\ IF hasFixedColumns
       THEN deferred' = TRUE /\ addWindowResizeEventListener
       ELSE UNCHANGED <<deferred, listeners, nextWrapper>>
  /\ clientWidth' \in 1..ScrollWidth
  /\ scrollBarWidth' = scrollbarThickness
  /\ outcome' = "none"
  /\ UNCHANGED <<propVars, flagVars, scrollLeft, scrollTop, headerScrollLeft,
                 throttleVars, debouncing>>
  /\ rendered' = renderLayout'
  /\ Quiet
  /\ PageUntouched

\* unmounted(): the refs and their elements are gone afterwards
Unmount ==
  /\ lifecycle = "mounted"
  /\ lifecycle' = "unmounted"
  /\ removeWindowResizeEventListener
  /\ scrollLeft' = 0
  /\ scrollTop' = 0
  /\ headerScrollLeft' = 0
  /\ clientWidth' = 1
  /\ outcome' = "none"
  /\ UNCHANGED <<propVars, measureVars, flagVars, throttleVars, deferred,
                 debouncing>>
  /\ Quiet
  /\ PageUntouched

\* the scroll container of the layout mode scrolls to (x, y) and dispatches
\* a scroll event to the throttled handler of the last render
ScrollTo(x, y) ==
  /\ lifecycle = "mounted"
  /\ <<x, y>> /= <<scrollLeft, scrollTop>>
  /\ x + clientWidth <= ScrollWidth
  /\ scrollLeft' = x
  /\ scrollTop' = y
  /\ LET r == ThrottleCall(handler, Wait) IN
       IF r.invoked
         THEN RunScrollHandler(r.th, orphans, x, y, clientWidth)
         ELSE /\ handler' = r.th
              /\ outcome' = "none"
              /\ UNCHANGED <<flagVars, headerScrollLeft, orphans>>
              /\ Quiet
  /\ UNCHANGED <<propVars, measureVars, lifecycle, clientWidth, deferred,
                 resizeVars>>
  /\ PageUntouched

\* a horizontal scroll to x
Scroll(x) == ScrollTo(x, scrollTop)

\* the timer of the throttled handler of the last render expires
HandlerTimer ==
  /\ handler.timer = Num(0)
  /\ LET r == ThrottleExpire(handler, Wait) IN
       IF r.invoked
         THEN RunScrollHandler(r.th, orphans, scrollLeft, scrollTop,
                               clientWidth)
         ELSE /\ handler' = r.th
              /\ outcome' = "none"
              /\ UNCHANGED <<flagVars, headerScrollLeft, orphans>>
              /\ Quiet
  /\ UNCHANGED <<propVars, measureVars, lifecycle, scrollLeft, scrollTop,
                 clientWidth, deferred, resizeVars>>
  /\ PageUntouched

\* the trailing timer of a throttled handler of an earlier render expires
OrphanTimer ==
  /\ 0 \in orphans
  /\ RunScrollHandler(handler, orphans \ {0}, scrollLeft, scrollTop,
                      clientWidth)
  /\ UNCHANGED <<propVars, measureVars, lifecycle, scrollLeft, scrollTop,
                 clientWidth, deferred, resizeVars>>
  /\ PageUntouched

\* d time units pass; a timer that is due fires first
Advance(d) ==
  /\ lifecycle /= "created"
  /\ IsNum(handler.timer) => handler.timer[1] >= d
  /\ \A o \in orphans : o >= d
  /\ handler' = ThrottleAge(handler, Wait, d)
  /\ orphans' = {o - d : o \in orphans}
  /\ sinceHandle' = IF IsNum(sinceHandle)
                      THEN Num(Min(sinceHandle[1] + d, ScrollWait))
                      ELSE sinceHandle
  /\ notify' = NotRun
  /\ outcome' = "none"
  /\ UNCHANGED <<propVars, measureVars, lifecycle, flagVars, domVars,
                 preScroll, deferred, resizeVars>>
  /\ PageUntouched

\* the window is resized: every registered wrapper restarts its debounce
\* timer; while mounted the scroll container may get the client width w
WindowResize(w) ==
  /\ lifecycle /= "created"
  /\ IF lifecycle = "mounted"
       THEN scrollLeft + w <= ScrollWidth
       ELSE w = clientWidth
  /\ clientWidth' = w
  /\ debouncing' = debouncing \cup listeners
  /\ outcome' = "none"
  /\ UNCHANGED <<propVars, measureVars, lifecycle, flagVars, scrollLeft,
                 scrollTop, headerScrollLeft, throttleVars, deferred,
                 listeners, nextWrapper>>
  /\ Quiet
  /\ PageUntouched

\* the debounce timer of a wrapper expires: checkScrollableToLeftOrRight()
FireResizeCheck(id) ==
  /\ id \in debouncing
  /\ debouncing' = debouncing \ {id}
  /\ RunCheck(handler, orphans, scrollLeft, clientWidth)
  /\ UNCHANGED <<propVars, measureVars, lifecycle, domVars, deferred,
                 listeners, nextWrapper>>
  /\ Quiet
  /\ PageUntouched

\* the setTimeout(..., 0) of mounted() expires
FireDeferredCheck ==
  /\ deferred
  /\ deferred' = FALSE
  /\ RunCheck(handler, orphans, scrollLeft, clientWidth)
  /\ UNCHANGED <<propVars, measureVars, lifecycle, domVars, resizeVars>>
  /\ Quiet
  /\ PageUntouched

\* the parent re-renders the mounted component (a prop changed)
ParentRender ==
  /\ lifecycle = "mounted"
  /\ RenderHandlers(handler, orphans)
  /\ outcome' = "none"
  /\ UNCHANGED <<propVars, measureVars, lifecycle, flagVars, domVars,
                 deferred, resizeVars>>
  /\ Quiet
  /\ PageUntouched

\* ------------------------------------------------- specification: reconciler
ReconcileInit ==
  /\ pagination \in {NoPagination} \cup PaginationConfigs
  /\ data = Rows(MaxRows)
  /\ PlainParent
  /\ PageIdle
  /\ height = Undefined
  /\ columns = <<Leaf("none")>>
  /\ scrollbarThickness = MaxScrollbar
  /\ sinceHandle = Undefined
  /\ ScrollIdle

ReconcileNext ==
  \/ \E c \in 1..MaxPage : OnCurrentChange(c)
  \/ \E s \in 1..MaxPage : OnPageSizeChange(s)
  \/ \E f \in ControlledFields \cup DefaultFields :
       \E v \in FieldValues(f) : SetPaginationField(f, v)
  \/ SupplyPagination(PaginationConfigs)
  \/ WithdrawPagination

SpecReconcile == ReconcileInit /\ [][ReconcileNext]_vars

\* ----------------------------------------------------- specification: slicer
SliceInit ==
  /\ pagination \in {NoPagination} \cup ControlledConfigs
  /\ data \in {Rows(n) : n \in 0..MaxRows}
  /\ PlainParent
  /\ PageIdle
  /\ height = Undefined
  /\ columns = <<Leaf("none")>>
  /\ scrollbarThickness = MaxScrollbar
  /\ sinceHandle = Undefined
  /\ ScrollIdle

SliceNext ==
  \/ \E c \in 1..MaxPage : OnCurrentChange(c)
  \/ \E s \in 1..MaxPage : OnPageSizeChange(s)
  \/ \E f \in ControlledFields :
       \E v \in FieldValues(f) : SetPaginationField(f, v)
  \/ SupplyPagination(ControlledConfigs)
  \/ WithdrawPagination
  \/ MutateData
  \/ Render

SpecSlice == SliceInit /\ [][SliceNext]_vars
\* ----------------------------------------------------- specification: scroll
ScrollInit ==
  /\ pagination = NoPagination
  /\ data = Rows(0)
  /\ PlainParent
  /\ PageIdle
  /\ height \in {Undefined, Num(120)}
  /\ columns \in ColumnSets
  /\ scrollbarThickness = MaxScrollbar
  /\ sinceHandle = Undefined
  /\ ScrollIdle

ScrollNext ==
  \/ Mount
  \/ Unmount
  \/ \E x \in 0..ScrollWidth : Scroll(x)
  \/ HandlerTimer
  \/ OrphanTimer
  \/ \E d \in {Wait \div 5, Wait \div 2, Wait} : Advance(d)
  \/ \E w \in 1..ScrollWidth : WindowResize(w)
  \/ \E id \in debouncing : FireResizeCheck(id)
  \/ FireDeferredCheck
  \/ ParentRender

SpecScroll == ScrollInit /\ [][ScrollNext]_vars

\* ----------------------------------------------------- specification: layout
\* every height and platform scrollbar, through mount and unmount
LayoutInit ==
  /\ pagination = NoPagination
  /\ data = Rows(0)
  /\ PlainParent
  /\ PageIdle
  /\ height \in Heights
  /\ columns \in ColumnSets
  /\ scrollbarThickness \in 0..MaxScrollbar
  /\ sinceHandle = Undefined
  /\ ScrollIdle

LayoutNext ==
  \/ Mount
  \/ Unmount
  \/ FireDeferredCheck
  \/ ParentRender

SpecLayout == LayoutInit /\ [][LayoutNext]_vars

\* ---------------------------------------------------- specification: columns
\* every column tree, through mount, resize and unmount
ColumnsInit ==
  /\ pagination = NoPagination
  /\ data = Rows(0)
  /\ PlainParent
  /\ PageIdle
  /\ height = Undefined
  /\ columns \in ColumnTrees
  /\ scrollbarThickness = MaxScrollbar
  /\ sinceHandle = Undefined
  /\ ScrollIdle

ColumnsNext ==
  \/ Mount
  \/ Unmount
  \/ \E w \in 1..ScrollWidth : WindowResize(w)
  \/ \E id \in debouncing : FireResizeCheck(id)
  \/ FireDeferredCheck

SpecColumns == ColumnsInit /\ [][ColumnsNext]_vars

\* ------------------------------------------------ specification: empty state
\* configurations that may control current and pageSize, of 1 where given
NotifyConfigs ==
  [current : {Undefined, Num(1)}, pageSize : {Undefined, Num(1)},
   defaultCurrent : {Num(1)}, defaultPageSize : {Num(1)}]

EmptyInit ==
  /\ pagination \in {NoPagination} \cup NotifyConfigs
  /\ data \in {Rows(n) : n \in 0..MaxRows}
  /\ loading \in BOOLEAN
  /\ footerSlot \in BOOLEAN
  /\ hooks = {}
  /\ PageIdle
  /\ height = Undefined
  /\ columns = <<Leaf("none")>>
  /\ scrollbarThickness = MaxScrollbar
  /\ sinceHandle = Undefined
  /\ ScrollIdle

EmptyNext ==
  \/ \E c \in 1..MaxPage : OnCurrentChange(c)
  \/ \E s \in 1..MaxPage : OnPageSizeChange(s)
  \/ \E n \in 0..MaxRows : SetData(n)
  \/ \E b \in BOOLEAN : SetLoading(b)

SpecEmpty == EmptyInit /\ [][EmptyNext]_vars

\* ---------------------------------------------- specification: notifications
\* a parent that listens for page-change, with or without the callbacks of
\* the pagination prop, and may control current and pageSize
NotifyInit ==
  /\ pagination \in NotifyConfigs
  /\ data \in {Rows(n) : n \in {1, MaxRows}}
  /\ loading = FALSE
  /\ footerSlot = FALSE
  /\ hooks \in {{"page-change"}, AllHooks}
  /\ PageIdle
  /\ height = Undefined
  /\ columns = <<Leaf("none")>>
  /\ scrollbarThickness = MaxScrollbar
  /\ sinceHandle = Undefined
  /\ ScrollIdle

NotifyNext ==
  \/ \E c \in 1..MaxPage : OnCurrentChange(c)
  \/ \E s \in {1, MaxPage} : OnPageSizeChange(s)
  \/ OnChange
  \/ \E f \in ControlledFields :
       \E v \in {Undefined, Num(1)} : SetPaginationField(f, v)

SpecNotify == NotifyInit /\ [][NotifyNext]_vars

\* ----------------------------------------------------- specification: events
\* the widget's events next to mount, scroll, resize and render
UncontrolledConfig ==
  [current |-> Undefined, pageSize |-> Undefined,
   defaultCurrent |-> Num(1), defaultPageSize |-> Num(1)]

EventsInit ==
  /\ pagination = UncontrolledConfig
  /\ data = Rows(1)
  /\ loading = FALSE
  /\ footerSlot = FALSE
  /\ hooks = AllHooks
  /\ PageIdle
  /\ height \in {Undefined, Num(120)}
  /\ columns = <<Leaf("left"), Leaf("none")>>
  /\ scrollbarThickness = MaxScrollbar
  /\ sinceHandle = Undefined
  /\ ScrollIdle

EventsNext ==
  \/ \E c \in {1, MaxPage} : OnCurrentChange(c)
  \/ OnPageSizeChange(MaxPage)
  \/ OnChange
  \/ Mount
  \/ \E x \in 0..ScrollWidth : Scroll(x)
  \/ HandlerTimer
  \/ OrphanTimer
  \/ Advance(Wait)
  \/ \E w \in 1..ScrollWidth : WindowResize(w)
  \/ \E id \in debouncing : FireResizeCheck(id)
  \/ FireDeferredCheck
  \/ ParentRender

SpecEvents == EventsInit /\ [][EventsNext]_vars

\* --------------------------------------------------- specification: throttle
\* scroll events in both directions and re-renders, with the time since the
\* last run of this.handleScroll kept
ThrottleInit ==
  /\ pagination = NoPagination
  /\ data = Rows(0)
  /\ PlainParent
  /\ PageIdle
  /\ height \in {Undefined, Num(120)}
  /\ columns \in ColumnSets
  /\ scrollbarThickness = MaxScrollbar
  /\ sinceHandle = Num(ScrollWait)
  /\ ScrollIdle

ThrottleNext ==
  \/ Mount
  \/ Unmount
  \/ \E x \in 0..ScrollWidth : \E y \in 0..MaxScrollTop : ScrollTo(x, y)
  \/ HandlerTimer
  \/ OrphanTimer
  \/ \E d \in {Wait \div 2, Wait} : Advance(d)
  \/ ParentRender

SpecThrottle == ThrottleInit /\ [][ThrottleNext]_vars

\* ------------------------------------------------------------------ claims
\* C1: the reconciled current page is the controlled pagination.current when
\* that is a page number (>= 1), else the internal default once a widget
\* event has recorded one, else the caller's pagination.defaultCurrent; the
\* reconciled page size follows the same chain.
C1_PriorityChain ==
  /\ Truthy(PaginationField("current"))
       => current = PaginationField("current")
  /\ (~Truthy(PaginationField("current")) /\ defaultCurrent /= 0)
       => current = Num(defaultCurrent)
  /\ (~Truthy(PaginationField("current")) /\ defaultCurrent = 0)
       => current = PaginationField("defaultCurrent")
  /\ Truthy(PaginationField("pageSize"))
       => pageSize = PaginationField("pageSize")
  /\ (~Truthy(PaginationField("pageSize")) /\ defaultPageSize /= 0)
       => pageSize = Num(defaultPageSize)
  /\ (~Truthy(PaginationField("pageSize")) /\ defaultPageSize = 0)
       => pageSize = PaginationField("defaultPageSize")

\* C1 witness: a controlled current of 2 wins over a recorded internal
\* default of 3, while an absent controlled page size yields the recorded
\* internal default 2 and not the caller's default 1.
C1_Witness ==
  /\ hasPagination
  /\ pagination.current = Num(2) /\ defaultCurrent = 3
  /\ current = Num(2)
  /\ pagination.pageSize = Undefined /\ defaultPageSize = 2
  /\ pagination.defaultPageSize = Num(1)
  /\ pageSize = Num(2)

\* C2: with pagination, page p >= 1, size s >= 1 and more than s rows, the
\* slice is data[(p-1)*s : p*s] in order, of length
\* max(0, min(s, length - (p-1)*s)); a page past the end is empty.
C2_SliceWindow ==
  (hasPagination /\ Truthy(current) /\ Truthy(pageSize)
     /\ Len(data) > pageSize[1])
  => LET p == current[1]
         s == pageSize[1]
         rows == dataSource.rows
     IN  /\ Len(rows) = Max(Min(s, Len(data) - (p - 1) * s), 0)
         /\ \A i \in 1..Len(rows) : rows[i] = data[(p - 1) * s + i]
         /\ ~dataSource.alias

\* C2 witness: the widget moved to page 3 of 2 rows at 1 row a page, which
\* is past the end; the slice handed to the body is empty.
C2_Witness ==
  /\ hasPagination /\ pagination.current = Undefined /\ defaultCurrent = 3
  /\ current = Num(3) /\ pageSize = Num(1)
  /\ Len(data) = 2
  /\ produced = Produce
  /\ produced.rows = << >>

\* C3: with pagination and no more rows than the page size, the slice is the
\* whole dataset whatever the current page.
C3_SmallDatasetWhole ==
  (hasPagination /\ IsNum(pageSize) /\ Len(data) <= pageSize[1])
  => dataSource.rows = data

\* C3 witness: 2 rows, page size 2, and the widget moved to page 3: both
\* rows are shown.
C3_Witness ==
  /\ hasPagination /\ pagination.current = Undefined /\ defaultCurrent = 3
  /\ current = Num(3) /\ pageSize = Num(2)
  /\ Len(data) = 2
  /\ produced = Produce
  /\ produced.rows = data

\* C4: without a pagination prop every step that produces the slice yields a
\* fresh array holding every row in order and leaves the dataset alone, and
\* a later in-place mutation of the dataset does not change a slice that
\* was produced without pagination.
C4_NoPaginationCopy ==
  [][ /\ (data' = data /\ ~hasPagination')
           => (produced'.rows = data' /\ ~produced'.alias /\ ~produced'.paged)
      /\ (data' /= data /\ ~produced.paged)
           => (produced' = produced
                 /\ Contents(produced)' = Contents(produced)) ]_vars

\* C4 witness: no pagination prop, both internal defaults recorded earlier,
\* and the dataset mutated after the slice was produced: the slice still
\* holds the rows it was produced with.
C4_Witness ==
  /\ ~hasPagination /\ ~produced.paged
  /\ defaultCurrent = 2 /\ defaultPageSize = 1
  /\ Len(produced.rows) = 3
  /\ Len(data) = 2
  /\ Contents(produced) = produced.rows

\* C5: the reconciled page and page size are never 0: each is a number >= 1
\* or, when every source is absent or falsy, unset.
C5_NeverZero ==
  /\ current /= Num(0)
  /\ pageSize /= Num(0)
  /\ (~Truthy(PaginationField("current")) /\ defaultCurrent = 0
        /\ ~Truthy(PaginationField("defaultCurrent")))
       => current = Undefined
  /\ (~Truthy(PaginationField("pageSize")) /\ defaultPageSize = 0
        /\ ~Truthy(PaginationField("defaultPageSize")))
       => pageSize = Undefined

\* C6: with pagination but an unset reconciled current page or page size,
\* the slice is the whole dataset.
C6_UnsetShowsWhole ==
  (hasPagination /\ (~IsNum(current) \/ ~IsNum(pageSize)))
  => dataSource.rows = data
\* C7: in split mode, while mounted, whenever no throttled call of the body
\* scroll handler is pending (the burst is over and the window of every
\* throttled handler, of this render or an earlier one, has elapsed), the
\* header's scrollLeft equals the body's scrollLeft.
C7_MirrorSettles ==
  (fixedHeader /\ lifecycle = "mounted" /\ ~handler.hasArgs /\ orphans = {})
  => headerScrollLeft = scrollLeft

\* C7 witness: split mode, the body scrolled to 2 in a burst, every timer
\* has expired and the header stands at 2.
C7_Witness ==
  /\ fixedHeader /\ lifecycle = "mounted"
  /\ handler.timer = Undefined /\ handler.sinceCall < MirrorWait
  /\ orphans = {}
  /\ scrollLeft = 2 /\ headerScrollLeft = 2

\* C8: after unmount no resize listener registered at mount is left on the
\* window.
C8_ListenersRemoved ==
  lifecycle = "unmounted" => listeners = {}

\* C9: checkScrollableToLeftOrRight never throws; with the ref absent it
\* does nothing.
C9_CheckNeverThrows ==
  outcome /= "checkThrew"

\* C10: right after checkScrollableToLeftOrRight has run for a scroll event,
\* a resize or the first check, scrollableToLeft is scrollLeft > 0 and
\* scrollableToRight is scrollLeft + clientWidth < scrollWidth of the scroll
\* container of the layout mode.
C10_FlagsMatchGeometry ==
  outcome = "checked"
  => /\ scrollableToLeft = (scrollLeft > 0)
     /\ scrollableToRight = (scrollLeft + clientWidth < ScrollWidth)

\* C10 witness: content width 3, client width 1, scrolled to the right end
\* at 2: the check just ran and reports (true, false).
C10_Witness ==
  /\ outcome = "checked"
  /\ clientWidth = 1 /\ scrollLeft = 2 /\ ScrollWidth - clientWidth = scrollLeft
  /\ scrollableToLeft /\ ~scrollableToRight

\* a string of decimal digits only
NumericString(s) == s /= << >> /\ \A i \in DOMAIN s : IsDigit(s[i])
\* a string that, after white space and an optional "+", starts with a run
\* of decimal digits holding a digit other than 0
LeadingPositive(s) ==
  \E i \in DOMAIN s : \E j \in i..Len(s) :
    /\ \A k \in 1..(i - 1) : s[k] \in WhiteSpace \/ (k = i - 1 /\ s[k] = "+")
    /\ \A k \in i..j : IsDigit(s[k])
    /\ \E k \in i..j : s[k] /= "0"

\* C11 as stated: a number or numeric string greater than 0 selects
\* FIXED_HEADER_SPLIT; height 0, an absent height and a non-numeric height
\* all parse to 0 and select SINGLE_BLOCK.
C11_NonNumericParsesToZero ==
  /\ ((~IsString(height) /\ IsNum(height) /\ height[1] > 0)
        \/ (IsString(height) /\ NumericString(height[2])
              /\ LeadingPositive(height[2])))
       => rendered.layout = "FIXED_HEADER_SPLIT"
  /\ (height \in {Undefined, Num(0)}
        \/ (IsString(height) /\ ~NumericString(height[2])))
       => (tableHeight = Num(0) /\ rendered.layout = "SINGLE_BLOCK")

\* C11 amended: the layout is FIXED_HEADER_SPLIT exactly when the height is
\* a number greater than 0 or a string whose leading decimal number (after
\* white space and an optional "+") is greater than 0, whatever follows the
\* digits; every other height selects SINGLE_BLOCK. Height 0 and an absent
\* height give table height 0, "120" gives 120, and a string without a
\* leading number gives NaN, not 0.
C11_LeadingNumberDecides ==
  /\ rendered.layout \in {"FIXED_HEADER_SPLIT", "SINGLE_BLOCK"}
  /\ rendered.layout = "FIXED_HEADER_SPLIT"
       <=> IF IsString(height) THEN LeadingPositive(height[2])
           ELSE IsNum(height) /\ height[1] > 0
  /\ height \in {Undefined, Num(0)} => tableHeight = Num(0)
  /\ height = Str(<<"1", "2", "0">>) => tableHeight = Num(120)
  /\ (IsString(height) /\ height[2] /= << >>
        /\ ~IsDigit(height[2][1]) /\ height[2][1] \notin WhiteSpace \cup {"-"})
       => tableHeight = Undefined

\* C11 witness: a mounted table of height "12p" is laid out with a split
\* header.
C11_Witness ==
  /\ lifecycle = "mounted"
  /\ height = Str(<<"1", "2", "p">>)
  /\ rendered.layout = "FIXED_HEADER_SPLIT"

\* C12: hasFixedColumns is true exactly when at least one leaf of the
\* flattened column list is fixed left or right.
C12_LeavesDecide ==
  hasFixedColumns
    <=> \E i \in DOMAIN flattedColumns :
          flattedColumns[i].fixed \in {"left", "right"}

\* C13: the table is empty exactly when the current slice has no rows and
\* the table is not loading, and the footer holds the empty-state content
\* exactly when the table is empty.
C13_EmptyFooter ==
  /\ isEmpty <=> (Len(dataSource.rows) = 0 /\ ~loading)
  /\ footer = "empty" <=> isEmpty

\* C13 witness: a footer is supplied, the table is not loading, and the
\* widget moved to page 3 of 2 rows at 1 row a page: the slice has no rows
\* and the footer shows the empty state.
C13_Witness ==
  /\ hasPagination /\ pagination.current = Undefined /\ defaultCurrent = 3
  /\ pageSize = Num(1) /\ Len(data) = 2
  /\ footerSlot /\ ~loading
  /\ footer = "empty"

\* the step delivered a page-change notification for that field of pageInfo
IsPageChange(l, field) ==
  l /= << >> /\ l[1].name = "page-change" /\ l[1].args.field = field

\* C14: both internal defaults start at 0; a step in which the widget's
\* current-change(c) is handled sets the internal default current to c and
\* leaves the internal default page size alone, a page-size-change(s) step
\* does the converse, and every other step (scroll, timer, resize, mount,
\* render, the widget's plain change) leaves both alone.
C14_OnlyWidgetEvents ==
  /\ defaultCurrent = 0 /\ defaultPageSize = 0
  /\ [][ /\ IsPageChange(log', "current")
              => /\ defaultCurrent' = log'[1].args.value
                 /\ defaultPageSize' = defaultPageSize
         /\ IsPageChange(log', "pageSize")
              => /\ defaultPageSize' = log'[1].args.value
                 /\ defaultCurrent' = defaultCurrent
         /\ (~IsPageChange(log', "current") /\ ~IsPageChange(log', "pageSize"))
              => UNCHANGED <<defaultCurrent, defaultPageSize>> ]_vars

\* C14 witness: the widget set page 1 and the largest page size, and a
\* scroll handler has just run: both internal defaults still stand.
C14_Witness ==
  /\ defaultCurrent = 1 /\ defaultPageSize = MaxPage
  /\ notify.ran /\ log = << >>
  /\ scrollLeft > 0

\* C15: a step that handles a current-change or page-size-change delivers
\* exactly one page-change, first; it carries the changed page info and the
\* slice and internal defaults as they were before the step; the internal
\* default then takes the new value; and the caller's own callback, when
\* supplied, is called after that, seeing the updated internal default.
C15_EmitUpdateForward ==
  [][ /\ (defaultCurrent' /= defaultCurrent
            \/ defaultPageSize' /= defaultPageSize)
           => (IsPageChange(log', "current") \/ IsPageChange(log', "pageSize"))
      /\ \A field \in {"current", "pageSize"} :
           IsPageChange(log', field)
           => LET emitted == log'[1].args
                  value == emitted.value
              IN  /\ Len(SelectSeq(log', LAMBDA e : e.name = "page-change")) = 1
                  /\ emitted.rows = dataSource.rows
                  /\ emitted.defaultCurrent = defaultCurrent
                  /\ emitted.defaultPageSize = defaultPageSize
                  /\ IF field = "current"
                       THEN defaultCurrent' = value
                       ELSE defaultPageSize' = value
                  /\ Len(log') <= 2
                  /\ Len(log') = 2
                       <=> (IF field = "current" THEN "onCurrentChange"
                            ELSE "onPageSizeChange") \in hooks
                  /\ Len(log') = 2
                       => /\ log'[2].name = IF field = "current"
                                              THEN "onCurrentChange"
                                              ELSE "onPageSizeChange"
                          /\ log'[2].args.value = value
                          /\ log'[2].args.defaultCurrent = defaultCurrent'
                          /\ log'[2].args.defaultPageSize = defaultPageSize'
    ]_vars

\* C15 witness: at 1 row a page the widget moved from page 1 to page 2; the
\* page-change carried row 1, the slice of the old page, the callback saw
\* the internal default 2, and the slice now holds row 2.
C15_Witness ==
  /\ pagination.current = Undefined /\ pageSize = Num(1)
  /\ Len(log) = 2
  /\ log[1].name = "page-change" /\ log[1].args.value = 2
  /\ log[1].args.rows = <<1>>
  /\ log[2].name = "onCurrentChange" /\ log[2].args.defaultCurrent = 2
  /\ defaultCurrent = 2
  /\ dataSource.rows = <<2>>

\* C16: in both layout modes this.handleScroll runs only when ScrollWait
\* time units have passed since its previous run.
C16_HandlerOncePerWindow ==
  [][notify'.ran => sinceHandle = Num(ScrollWait)]_vars

\* C17: in split mode the header's scrollLeft is written only when
\* MirrorWait time units have passed since the previous write.
C17_MirrorOncePerWindow ==
  [][(fixedHeader /\ notify'.ran /\ outcome' = "checked")
       => sinceHandle[1] >= MirrorWait]_vars

\* C18: a run of this.handleScroll classifies the scroll by the change of
\* scrollLeft against the change of scrollTop since the previous reading,
\* keeps the new reading, and emits exactly scroll-x for a horizontal
\* scroll, exactly scroll-y for a vertical one and nothing for an unknown
\* direction, each with the originating event.
C18_OneNotificationByDirection ==
  [][notify'.ran
       => /\ notify'.direction = getScrollDirection(scrollLeft', scrollTop')
          /\ preScroll' = [left |-> scrollLeft', top |-> scrollTop']
          /\ notify'.events =
               IF notify'.direction = SCROLL_DIRECTION.X
                 THEN <<[name |-> "scroll-x", args |-> "e"]>>
               ELSE IF notify'.direction = SCROLL_DIRECTION.Y
                 THEN <<[name |-> "scroll-y", args |-> "e"]>>
               ELSE << >> ]_vars

\* C18 witness: the handler ran for a scroll that ended where the previous
\* reading was taken: the direction is unknown and nothing was emitted.
C18_Witness ==
  /\ notify.ran
  /\ scrollLeft > 0
  /\ notify.direction = SCROLL_DIRECTION.UNKNOWN
  /\ notify.events = << >>

\* C19 as stated: the header's padding-right is the measured scrollbar width
\* when the layout is split and a column is fixed, and no scrollbar-width
\* padding is applied in single-block mode or in split mode without a fixed
\* column.
C19_PaddingOnlyWithFixedColumns ==
  /\ (rendered.layout = "FIXED_HEADER_SPLIT" /\ hasFixedColumns
        /\ lifecycle = "mounted")
       => rendered.paddingRight = Num(scrollbarThickness)
  /\ ~(rendered.layout = "FIXED_HEADER_SPLIT" /\ hasFixedColumns)
       => rendered.paddingRight \in {Undefined, Num(0)}

\* C19 amended: the scrollbar width is 0 before mount and the platform's
\* scrollbar thickness from mount on, with or without fixed columns; in
\* split mode the header's padding-right is that width, with or without
\* fixed columns, and in single-block mode there is no header element to
\* pad.
C19_PaddingInSplitMode ==
  /\ lifecycle = "created" => scrollBarWidth = 0
  /\ lifecycle /= "created" => scrollBarWidth = scrollbarThickness
  /\ rendered.layout = "FIXED_HEADER_SPLIT"
       => rendered.paddingRight = Num(scrollBarWidth)
  /\ rendered.layout = "SINGLE_BLOCK" => rendered.paddingRight = Undefined

\* C19 witness: a mounted split-mode table without a fixed column on a
\* platform with a scrollbar: the header is padded by its thickness.
C19_Witness ==
  /\ lifecycle = "mounted"
  /\ rendered.layout = "FIXED_HEADER_SPLIT"
  /\ ~hasFixedColumns
  /\ scrollbarThickness > 0
  /\ rendered.paddingRight = Num(scrollbarThickness)

\* C20: in split mode, right after a run of the body scroll handler, the
\* header's scrollLeft is the body's scrollLeft and both flags are the
\* values derived from that same position.
C20_MirrorAndFlagsAgree ==
  (fixedHeader /\ notify.ran)
  => /\ headerScrollLeft = scrollLeft
     /\ scrollableToLeft = (headerScrollLeft > 0)
     /\ scrollableToRight = (headerScrollLeft + clientWidth < ScrollWidth)

\* C20 witness: split mode, the body stands at 1 of a content 3 wide behind
\* a client 1 wide; the handler just ran, the header stands at 1 and both
\* flags are set.
C20_Witness ==
  /\ fixedHeader /\ notify.ran
  /\ scrollLeft = 1 /\ clientWidth = 1
  /\ headerScrollLeft = 1
  /\ scrollableToLeft /\ scrollableToRight
====
